---- MODULE Spec2Model ----
(***************************************************************************)
(* Plugin execution and event-broadcast subsystem of the Buddian bot:     *)
(* the PluginManager of packages/bot/src/plugins/manager.ts.               *)
(*                                                                         *)
(* The manager runs on one JavaScript thread.  Every async method is cut   *)
(* at the awaits that wait for a plugin hook, a timeout timer or ctx.reply; *)
(* the code between two such awaits is one atomic action.                  *)
(***************************************************************************)
EXTENDS Integers, Sequences, FiniteSets, Bags, TLC

(***************************************************************************)
(* Bounds of the model.                                                    *)
(***************************************************************************)
\* calls of the public API (initialize, executeCommand, broadcastEvent,
\* setPluginActive, shutdown) made in one behaviour
MaxCalls == 3
\* pluginsConfig.timeout, in clock ticks (PLUGIN_TIMEOUT is any positive integer)
Timeout == 1
\* the clock Date.now() runs over 1..MaxTime: long enough for a timer to fire
MaxTime == Timeout + 1

(***************************************************************************)
(* The plugin modules the plugin directory can hold.  A candidate is the   *)
(* object a module exports: import() caches modules, so loading the same   *)
(* directory twice yields the same plugin instance.                        *)
(***************************************************************************)
DemoInst == 0
Cand == {1, 2, 3}

\* plugin.getName(): candidates 1 and 3 report the same name
CandName(c) ==
    CASE c = DemoInst -> "Demo Plugin"
      [] c = 1 -> "A"
      [] c = 2 -> "B"
      [] c = 3 -> "A"

\* the names of plugin.getCommands()
CandCommands(c) ==
    CASE c = DemoInst -> {"demo"}
      [] c = 1 -> {"foo"}
      [] c = 2 -> {"bar"}
      [] c = 3 -> {"bar"}

\* plugin.config.timeout, the optional per-plugin override, in clock ticks; 0 stands
\* for a config that declares none.  Candidate 3 declares one longer than the default
CandTimeout(c) == IF c = 3 THEN Timeout + 1 ELSE 0

\* typeof plugin.cleanup === 'function' (cleanup is optional; the demo has none)
CandHasCleanup(c) == c \in {1, 2, 3}

PluginNames == {"A", "Demo Plugin"}
CommandNames == {"foo", "bar", "demo"}

\* what readdirSync(pluginPath) can return: the subdirectories, in listing order
Listings == {<<>>, <<1, 2, 3>>}

VARIABLES
    enabled,        \* pluginsConfig.enabled
    fs,             \* the plugin directory: [exists, dirs]
    initialized,    \* PluginManager.initialized
    plugins,        \* PluginManager.plugins: a Map in insertion order, <<[key, obj]>>
    heap,           \* the LoadedPlugin objects, by reference
    nextObj,        \* the next LoadedPlugin reference (references grow in creation order)
    now,            \* Date.now()
    ncalls,         \* API calls made so far
    dispatches,     \* executeCommand calls awaiting their race or their reply (a bag)
    broadcasts,     \* broadcastEvent calls awaiting Promise.allSettled
    inits,          \* initialize calls awaiting a loadPlugin
    shuts,          \* shutdown calls awaiting Promise.allSettled
    late,           \* handlers still running after their call lost the race
    view,           \* the array the last getPluginStats() call returned, as its
                    \* caller holds it
    initCount,      \* observation: plugin.initialize() invocations per instance since
                    \* the last shutdown() call
    cleanupCount,   \* observation: plugin.cleanup() invocations per instance
    sinceShutdown,  \* observation: a shutdown() has resolved and initialize() was not
                    \* called since
    last            \* observation: the most recently settled API call

vars == <<enabled, fs, view, initialized, plugins, heap, nextObj, now, ncalls, dispatches,
          broadcasts, inits, shuts, late, initCount, cleanupCount, sinceShutdown, last>>

(***************************************************************************)
(* Helpers.                                                                *)
(***************************************************************************)
Range(s) == {s[i] : i \in DOMAIN s}

\* the calls in flight form a bag: one more, one less
Put(bag, t) == bag (+) SetToBag({t})
Take(bag, t) == bag (-) SetToBag({t})

\* Map.prototype.set: an existing key keeps its position and takes the new value
MapSet(m, k, v) ==
    IF \E i \in DOMAIN m : m[i].key = k
    THEN [i \in DOMAIN m |-> IF m[i].key = k THEN [key |-> k, obj |-> v] ELSE m[i]]
    ELSE Append(m, [key |-> k, obj |-> v])

\* Map.prototype.get: the object under key k, 0 for undefined
MapGet(m, k) ==
    IF \E i \in DOMAIN m : m[i].key = k
    THEN (CHOOSE e \in Range(m) : e.key = k).obj
    ELSE 0

\* the objects still referenced: by the registry or by a running executeCommand
Referenced(regs, disps) ==
    {e.obj : e \in Range(regs)} \cup {d.obj : d \in BagToSet(disps)}

\* the objects reachable from the array getPluginStats() returned: each entry's
\* `stats` is the LoadedPlugin's own stats object
ViewObjs == {e.obj : e \in Range(view)}

\* garbage collection: an unreferenced LoadedPlugin is gone
Collect(h, regs, disps) ==
    [o \in (DOMAIN h \cap (Referenced(regs, disps) \cup ViewObjs)) |-> h[o]]

\* variant: the entry is registered inactive
NewLoadedPlugin_Inactive(c) ==
    [name |-> CandName(c), inst |-> c, commands |-> CandCommands(c), active |-> FALSE,
     lastUsed |-> 0,
     executions |-> 0, errors |-> 0, totalExecutionTime |-> 0,
     doneOk |-> 0, doneFail |-> 0, sumElapsed |-> 0]

\* the registry entry loadPlugin and createBasicDemoPlugin build
NewLoadedPlugin(c) ==
    [name |-> CandName(c), inst |-> c, commands |-> CandCommands(c), active |-> TRUE,
     lastUsed |-> 0,
     executions |-> 0, errors |-> 0, totalExecutionTime |-> 0,
     \* observation: dispatches returned true / not true, and the elapsed times measured
     doneOk |-> 0, doneFail |-> 0, sumElapsed |-> 0]

\* the observation of a call, before any call has settled
NoCall ==
    [kind |-> "none", result |-> "none", cause |-> "none", name |-> "none", inst |-> -1,
     state |-> "none",
     elapsed |-> 0, usedNow |-> FALSE, replies |-> 0, msg |-> "none", before |-> <<>>,
     after |-> <<>>,
     wasActive |-> FALSE, earlier |-> FALSE, invoked |-> <<>>, activeAtCall |-> {}]

\* executions, errors, totalExecutionTime, lastUsed, active of an entry
Stats(r) == <<r.executions, r.errors, r.totalExecutionTime, r.lastUsed, r.active>>

(***************************************************************************)
(* The state after construction.                                           *)
(***************************************************************************)
Init ==
    /\ enabled \in BOOLEAN
    /\ fs \in {[exists |-> FALSE, dirs |-> <<>>]} \cup
              {[exists |-> TRUE, dirs |-> l] : l \in Listings}
    /\ initialized = FALSE
    /\ plugins = <<>>
    /\ heap = <<>>
    /\ nextObj = 1
    /\ now = 1
    /\ ncalls = 0
    /\ dispatches = EmptyBag
    /\ broadcasts = EmptyBag
    /\ inits = EmptyBag
    /\ shuts = EmptyBag
    /\ late = [commands |-> 0, events |-> 0]
    /\ view = <<>>
    /\ initCount = [c \in Cand \cup {DemoInst} |-> 0]
    /\ cleanupCount = [c \in Cand \cup {DemoInst} |-> 0]
    /\ sinceShutdown = FALSE
    /\ last = NoCall

(***************************************************************************)
(* initialize() and discovery.                                             *)
(***************************************************************************)
\* this.plugins.set(plugin.getName(), loadedPlugin) with a fresh entry for instance c
Register(c) ==
    /\ plugins' = MapSet(plugins, CandName(c), nextObj)
    /\ heap' = Collect(heap @@ (nextObj :> NewLoadedPlugin(c)), plugins', dispatches)
    /\ nextObj' = nextObj + 1

\* variant: without the catch around loadPlugin, the loop ends with the candidate
\* at hand and initialize() rejects
Continue_Abort(t) ==
    /\ inits' = Take(inits, t)
    /\ last' = [NoCall EXCEPT !.kind = "initialize", !.result = "rejected",
                              !.cause = "discovered"]
    /\ UNCHANGED initialized

\* discoverPlugins after the candidate of the pending call t: the next loadPlugin, or the
\* end of the loop and of initialize(), which sets this.initialized
Continue(t) ==
    IF t.idx < Len(fs.dirs)
    THEN /\ inits' = Put(Take(inits, t), [idx |-> t.idx + 1])
         /\ UNCHANGED <<initialized, last>>
    ELSE /\ inits' = Take(inits, t)
         /\ initialized' = TRUE
         /\ last' = [NoCall EXCEPT !.kind = "initialize", !.result = "resolved",
                                   !.cause = "discovered"]

\* initialize(): the guards, then discoverPlugins up to the first loadPlugin
Initialize ==
    /\ ncalls < MaxCalls
    /\ ncalls' = ncalls + 1
    /\ sinceShutdown' = FALSE
    /\ UNCHANGED <<enabled, fs, view, now, dispatches, broadcasts, shuts, late, cleanupCount>>
    /\ IF initialized \/ ~enabled
       THEN /\ last' = [NoCall EXCEPT !.kind = "initialize", !.result = "resolved",
                                      !.cause = "guard"]
            /\ UNCHANGED <<initialized, plugins, heap, nextObj, inits, initCount>>
       ELSE IF ~fs.exists
       THEN \* readdirSync throws: createBasicDemoPlugin, whose hooks are the manager's own
            /\ initCount' = [initCount EXCEPT ![DemoInst] = @ + 1]
            /\ Register(DemoInst)
            /\ initialized' = TRUE
            /\ last' = [NoCall EXCEPT !.kind = "initialize", !.result = "resolved",
                                      !.cause = "demo"]
            /\ UNCHANGED inits
       ELSE IF fs.dirs = <<>>
       THEN /\ initialized' = TRUE
            /\ last' = [NoCall EXCEPT !.kind = "initialize", !.result = "resolved",
                                      !.cause = "discovered"]
            /\ UNCHANGED <<plugins, heap, nextObj, inits, initCount>>
       ELSE /\ inits' = Put(inits, [idx |-> 1])
            /\ UNCHANGED <<initialized, plugins, heap, nextObj, initCount, last>>

\* the ways one loadPlugin can go: the import fails; the module lacks getName;
\* plugin.initialize() rejects with an Error, or with null or undefined; getCommands
\* throws after initialize() succeeded; or the plugin loads
LoadOutcomes ==
    {"importFails", "invalid", "rejectError", "rejectNullish", "getCommandsThrows", "ok"}

\* the plugins installed: candidate 1 can go every way, candidate 2 always loads,
\* candidate 3 loads or fails in its initialize()
CandLoadOutcomes(c) ==
    CASE c = 1 -> LoadOutcomes
      [] c = 2 -> {"ok"}
      [] c = 3 -> {"ok"}

\* loadPlugin of the candidate at the pending call's position, from its import to the
\* registration or to the catch that logs the failure.  logError reads error.name, so
\* it throws on a rejection whose reason is null or undefined; loadPlugin then rejects
\* with that TypeError, which the catch around it in discoverPlugins logs, and the
\* loop goes on as after any other failure
LoadSettled(t, outcome) ==
    /\ BagIn(t, inits)
    /\ outcome \in CandLoadOutcomes(fs.dirs[t.idx])
    /\ UNCHANGED <<sinceShutdown, enabled, fs, view, now, ncalls, dispatches, broadcasts, shuts, late,
                   cleanupCount>>
    /\ initCount' = IF outcome \in {"importFails", "invalid"} THEN initCount
                    ELSE [initCount EXCEPT ![fs.dirs[t.idx]] = @ + 1]
    /\ CASE outcome = "ok" ->
              /\ Register(fs.dirs[t.idx])
              /\ Continue(t)
         [] outcome \in {"importFails", "invalid", "rejectError", "rejectNullish",
                          "getCommandsThrows"} ->
              /\ Continue(t)
              /\ UNCHANGED <<plugins, heap, nextObj>>

(***************************************************************************)
(* shutdown().                                                             *)
(***************************************************************************)
\* the instances whose cleanup() shutdownPlugin calls: every registry entry, active
\* or not, whose plugin defines cleanup
CleanupTargets(regs, h) == {c \in {h[e.obj].inst : e \in Range(regs)} : CandHasCleanup(c)}

\* variant: Promise.all, which settles as soon as one promise has rejected
AllSettled_FailFast(pending, rejected) == pending = {} \/ rejected

\* Promise.allSettled(shutdownPromises) has resolved: all settled, rejected or not
AllSettled(pending, rejected) == pending = {}

\* shutdown() after its await: the registry is cleared
ShutdownFinish(rejected) ==
    /\ plugins' = <<>>
    /\ initialized' = FALSE
    /\ heap' = Collect(heap, <<>>, dispatches)
    /\ sinceShutdown' = TRUE
    /\ last' = [NoCall EXCEPT !.kind = "shutdown", !.result = "resolved",
                              !.cause = IF rejected THEN "cleanupRejected" ELSE "clean"]

\* shutdown(): shutdownPlugin is started for every registry entry, then awaited
Shutdown ==
    /\ ncalls < MaxCalls
    /\ ncalls' = ncalls + 1
    /\ UNCHANGED <<enabled, fs, view, now, dispatches, broadcasts, inits, late, nextObj>>
    /\ initCount' = [c \in DOMAIN initCount |-> 0]
    /\ cleanupCount' = [c \in DOMAIN cleanupCount |->
                          IF c \in CleanupTargets(plugins, heap)
                          THEN cleanupCount[c] + 1 ELSE cleanupCount[c]]
    /\ IF AllSettled(CleanupTargets(plugins, heap), FALSE)
       THEN /\ ShutdownFinish(FALSE)
            /\ UNCHANGED shuts
       ELSE /\ shuts' = Put(shuts, [pending |-> CleanupTargets(plugins, heap),
                                    rejected |-> FALSE])
            /\ UNCHANGED <<initialized, plugins, heap, sinceShutdown, last>>

\* one plugin's cleanup() settles; a rejection is logged by shutdownPlugin, and a
\* null or undefined reason makes logError throw, which rejects that shutdownPlugin
CleanupSettled(t, c, outcome) ==
    /\ BagIn(t, shuts)
    /\ c \in t.pending
    /\ UNCHANGED <<enabled, fs, view, now, ncalls, dispatches, broadcasts, inits, late,
                   initCount, cleanupCount, nextObj>>
    /\ LET pending == t.pending \ {c}
           rejected == t.rejected \/ outcome = "rejectNullish"
       IN IF AllSettled(pending, rejected)
          THEN /\ ShutdownFinish(rejected)
               /\ shuts' = Take(shuts, t)
          ELSE /\ shuts' = Put(Take(shuts, t), [pending |-> pending, rejected |-> rejected])
               /\ UNCHANGED <<initialized, plugins, heap, sinceShutdown, last>>

(***************************************************************************)
(* setPluginActive(pluginName, active).                                    *)
(***************************************************************************)
\* variant: the flag is written to every registry entry
SetPluginActive_AllEntries(name, b) ==
    /\ ncalls < MaxCalls
    /\ ncalls' = ncalls + 1
    /\ UNCHANGED <<sinceShutdown, enabled, fs, view, initialized, plugins, nextObj, now, dispatches,
                   broadcasts, inits, shuts, late, initCount, cleanupCount>>
    /\ IF MapGet(plugins, name) = 0
       THEN /\ last' = [NoCall EXCEPT !.kind = "setPluginActive", !.result = "false"]
            /\ UNCHANGED heap
       ELSE /\ heap' = [o \in DOMAIN heap |->
                           IF \E e \in Range(plugins) : e.obj = o
                           THEN [heap[o] EXCEPT !.active = b] ELSE heap[o]]
            /\ last' = [NoCall EXCEPT !.kind = "setPluginActive", !.result = "true",
                                      !.name = name,
                                      !.inst = heap[MapGet(plugins, name)].inst,
                                      !.before = Stats(heap[MapGet(plugins, name)]),
                                      !.after = Stats(heap'[MapGet(plugins, name)])]

SetPluginActive(name, b) ==
    /\ ncalls < MaxCalls
    /\ ncalls' = ncalls + 1
    /\ UNCHANGED <<sinceShutdown, enabled, fs, view, initialized, plugins, nextObj, now, dispatches,
                   broadcasts, inits, shuts, late, initCount, cleanupCount>>
    /\ IF MapGet(plugins, name) = 0
       THEN /\ last' = [NoCall EXCEPT !.kind = "setPluginActive", !.result = "false"]
            /\ UNCHANGED heap
       ELSE /\ heap' = [heap EXCEPT ![MapGet(plugins, name)].active = b]
            /\ last' = [NoCall EXCEPT !.kind = "setPluginActive", !.result = "true",
                                      !.name = name,
                                      !.inst = heap[MapGet(plugins, name)].inst,
                                      !.before = Stats(heap[MapGet(plugins, name)]),
                                      !.after = Stats(heap'[MapGet(plugins, name)])]

\* a race is open: a timer is armed and executionTime is still to be measured
Timing ==
    \/ \E d \in BagToSet(dispatches) : d.phase = "race"
    \/ \E b \in BagToSet(broadcasts) : \E a \in Range(b.attempts) : a.st = "pending"

\* the clock advances; the manager reads it only around a race (startTime, the timer,
\* executionTime, lastUsed), so time that passes while no race is open is left out
Tick ==
    /\ Timing
    /\ now < MaxTime
    /\ now' = now + 1
    /\ UNCHANGED <<sinceShutdown, enabled, fs, view, initialized, plugins, heap, nextObj, ncalls, dispatches,
                   broadcasts, inits, shuts, late, initCount, cleanupCount, last>>

\* variant: the clock may pass a timer that is due
TickUntilDue_Late ==
    /\ \E b \in BagToSet(broadcasts) : \E a \in Range(b.attempts) : a.st = "pending"
    /\ \A b \in BagToSet(broadcasts) :
          (\E a \in Range(b.attempts) : a.st = "pending") => now < b.start + Timeout + 1
    /\ now' = now + 1
    /\ UNCHANGED <<sinceShutdown, enabled, fs, view, initialized, plugins, heap, nextObj, ncalls, dispatches,
                   broadcasts, inits, shuts, late, initCount, cleanupCount, last>>

\* the clock as the timers of broadcasts see it: it advances while an attempt is
\* pending, and a setTimeout callback that is due runs before the clock is read again
TickUntilDue ==
    /\ \E b \in BagToSet(broadcasts) : \E a \in Range(b.attempts) : a.st = "pending"
    /\ \A b \in BagToSet(broadcasts) :
          (\E a \in Range(b.attempts) : a.st = "pending") => now < b.start + Timeout
    /\ now' = now + 1
    /\ UNCHANGED <<sinceShutdown, enabled, fs, view, initialized, plugins, heap, nextObj, ncalls, dispatches,
                   broadcasts, inits, shuts, late, initCount, cleanupCount, last>>

(***************************************************************************)
(* The manager's state as the specification names it; the code keeps only  *)
(* the flag `initialized`.                                                 *)
(***************************************************************************)
ManagerState ==
    IF shuts # EmptyBag THEN "ShuttingDown"
    ELSE IF initialized THEN "Ready"
    ELSE IF inits # EmptyBag THEN "Initializing"
    ELSE "Idle"

(***************************************************************************)
(* executeCommand(commandName, ctx, args).                                 *)
(***************************************************************************)
\* variant: the loop does not test loadedPlugin.active
FindCommand_AnyState(regs, h, cmd) ==
    LET hits == {i \in DOMAIN regs : cmd \in h[regs[i].obj].commands}
    IN IF hits = {} THEN 0
       ELSE regs[CHOOSE i \in hits : \A j \in hits : i <= j].obj

\* the for loop over this.plugins: the first entry, in Map order, that is active and
\* whose command table has the name; 0 when the loop ends without a match
FindCommand(regs, h, cmd) ==
    LET hits == {i \in DOMAIN regs :
                    h[regs[i].obj].active /\ cmd \in h[regs[i].obj].commands}
    IN IF hits = {} THEN 0
       ELSE regs[CHOOSE i \in hits : \A j \in hits : i <= j].obj

\* what command.execute(ctx, args) can do before it returns its promise.  The demo
\* command is an async function, which never throws synchronously; of the installed
\* plugins, candidate 1 has async handlers, candidate 2 fails with null or undefined
\* (`throw undefined`, `Promise.reject()`), candidate 3 fails with an Error
HandlerBehaviours(c) ==
    CASE c = DemoInst -> {"pending"}
      [] c = 1 -> {"pending"}
      [] c = 2 -> {"pending", "throwNullish"}
      [] c = 3 -> {"pending", "throwError"}

\* how the returned promise can settle; the demo command settles as its ctx.reply does
HandlerOutcomes(c) ==
    CASE c = DemoInst -> {"resolve", "rejectError"}
      [] c = 1 -> {"resolve", "rejectError"}
      [] c = 2 -> {"resolve", "rejectNullish"}
      [] c = 3 -> {"resolve", "rejectError"}

\* variant: a timer that fires first is taken for a handler that returned
RaceOutcome_TimerLoses(first) ==
    IF first \in {"resolve", "timeout"} THEN "success" ELSE "failure"

\* await Promise.race([executionPromise, timeoutPromise]) inside the try: the first
\* promise to settle decides, and only a fulfilled handler continues after the await
RaceOutcome(first) == IF first = "resolve" THEN "success" ELSE "failure"

\* variant: the success path counts the execution and drops the elapsed time
RecordSuccess_NoTime(r, executionTime, t) ==
    [r EXCEPT !.executions = @ + 1,
              !.lastUsed = t]

\* variant: the success path does not stamp lastUsed
RecordSuccess_NoLastUsed(r, executionTime, t) ==
    [r EXCEPT !.executions = @ + 1,
              !.totalExecutionTime = @ + executionTime]

\* the stats update after the race was won by the handler
RecordSuccess(r, executionTime, t) ==
    [r EXCEPT !.executions = @ + 1,
              !.totalExecutionTime = @ + executionTime,
              !.lastUsed = t]

\* variant: the catch block counts the error and drops the elapsed time
RecordFailure_NoTime(r, executionTime) ==
    [r EXCEPT !.errors = @ + 1]

\* the stats update at the head of the catch block
RecordFailure(r, executionTime) ==
    [r EXCEPT !.errors = @ + 1,
              !.totalExecutionTime = @ + executionTime]

\* the text sent by ctx.reply in the catch block: it embeds error.message
FailureMessage(cause) ==
    IF cause = "timeout" THEN "Plugin command failed: Plugin command timeout"
    ELSE "Plugin command failed: <message of the plugin's error>"

ErrKind(outcome) == IF outcome \in {"throwNullish", "rejectNullish"} THEN "nullish" ELSE "Error"

\* the observation of a settled executeCommand call
DispatchDone(d, result, replies) ==
    [NoCall EXCEPT !.kind = "executeCommand", !.result = result, !.cause = d.cause,
                   !.inst = d.inst, !.state = d.state, !.elapsed = d.elapsed,
                   !.usedNow = d.usedNow, !.replies = replies, !.msg = d.msg,
                   !.before = d.before,
                   !.after = d.after, !.wasActive = d.wasActive, !.earlier = d.earlier]

\* the try block after a fulfilled race: stats, log, return true
SuccessPath(rest, d, first) ==
    LET executionTime == now - d.start
        r == heap[d.obj]
        r1 == [RecordSuccess(r, executionTime, now) EXCEPT
                  !.doneOk = @ + 1, !.sumElapsed = @ + executionTime]
    IN /\ dispatches' = rest
       /\ heap' = Collect([heap EXCEPT ![d.obj] = r1], plugins, rest)
       /\ last' = DispatchDone([d EXCEPT !.cause = first, !.elapsed = executionTime,
                                         !.usedNow = (r1.lastUsed = now),
                                         !.before = Stats(r), !.after = Stats(r1)],
                               "true", 0)

\* the catch block up to `await ctx.reply(...)`: stats, then logError, which throws out
\* of executeCommand when the caught value is null or undefined
FailurePath(rest, d, cause) ==
    LET executionTime == now - d.start
        r == heap[d.obj]
        r1 == [RecordFailure(r, executionTime) EXCEPT !.sumElapsed = @ + executionTime]
        d1 == [d EXCEPT !.cause = cause, !.elapsed = executionTime,
                        !.before = Stats(r), !.after = Stats(r1)]
    IN IF ErrKind(cause) = "nullish"
       THEN /\ dispatches' = rest
            /\ heap' = Collect([heap EXCEPT ![d.obj] = [r1 EXCEPT !.doneFail = @ + 1]],
                               plugins, rest)
            /\ last' = DispatchDone(d1, "rejected", 0)
       ELSE /\ dispatches' = Put(rest, [d1 EXCEPT !.phase = "reply",
                                                     !.msg = FailureMessage(cause)])
            /\ heap' = [heap EXCEPT ![d.obj] = r1]
            /\ UNCHANGED last

\* executeCommand up to its first await
ExecuteCommand(cmd) ==
    /\ ncalls < MaxCalls
    /\ ncalls' = ncalls + 1
    /\ UNCHANGED <<sinceShutdown, enabled, fs, view, initialized, plugins, nextObj, now, broadcasts, inits,
                   shuts, late, initCount, cleanupCount>>
    /\ IF ~initialized \/ ~enabled
       THEN /\ last' = [NoCall EXCEPT !.kind = "executeCommand", !.result = "false",
                                      !.cause = "guard", !.name = cmd,
                                      !.state = ManagerState]
            /\ UNCHANGED <<heap, dispatches>>
       ELSE IF FindCommand(plugins, heap, cmd) = 0
       THEN /\ last' = [NoCall EXCEPT !.kind = "executeCommand", !.result = "false",
                                      !.cause = "nomatch", !.name = cmd,
                                      !.state = ManagerState]
            /\ UNCHANGED <<heap, dispatches>>
       ELSE LET o == FindCommand(plugins, heap, cmd)
                d == [cmd |-> cmd, obj |-> o, inst |-> heap[o].inst, start |-> now,
                      phase |-> "race", cause |-> "none", elapsed |-> 0, usedNow |-> FALSE,
                      msg |-> "none",
                      before |-> <<>>, after |-> <<>>, state |-> ManagerState,
                      wasActive |-> heap[o].active,
                      earlier |-> \E e \in Range(plugins) :
                                     /\ e.obj < o
                                     /\ heap[e.obj].active
                                     /\ cmd \in heap[e.obj].commands]
            IN \E beh \in HandlerBehaviours(heap[o].inst) :
                  IF beh = "pending"
                  THEN /\ dispatches' = Put(dispatches, d)
                       /\ UNCHANGED <<heap, last>>
                  ELSE FailurePath(dispatches, d, beh)

\* the handler's promise settles while the race is open
HandlerSettled(d, outcome) ==
    /\ BagIn(d, dispatches)
    /\ d.phase = "race"
    /\ outcome \in HandlerOutcomes(d.inst)
    /\ UNCHANGED <<sinceShutdown, enabled, fs, view, initialized, plugins, nextObj, now, ncalls, broadcasts,
                   inits, shuts, late, initCount, cleanupCount>>
    /\ IF RaceOutcome(outcome) = "success"
       THEN SuccessPath(Take(dispatches, d), d, outcome)
       ELSE FailurePath(Take(dispatches, d), d, outcome)

\* variant: the timer cancels the handler, so nothing runs on after the race
CommandTimerFired_Cancels(d) ==
    /\ BagIn(d, dispatches)
    /\ d.phase = "race"
    /\ now >= d.start + Timeout
    /\ UNCHANGED <<sinceShutdown, enabled, fs, view, initialized, plugins, nextObj, now, ncalls, broadcasts,
                   inits, shuts, late, initCount, cleanupCount>>
    /\ FailurePath(Take(dispatches, d), d, "timeout")

\* the setTimeout callback rejects timeoutPromise while the race is open; the handler
\* is not cancelled and runs on
CommandTimerFired(d) ==
    /\ BagIn(d, dispatches)
    /\ d.phase = "race"
    /\ now >= d.start + Timeout
    /\ late' = [late EXCEPT !.commands = @ + 1]
    /\ UNCHANGED <<sinceShutdown, enabled, fs, view, initialized, plugins, nextObj, now, ncalls, broadcasts,
                   inits, shuts, initCount, cleanupCount>>
    /\ IF RaceOutcome("timeout") = "success"
       THEN SuccessPath(Take(dispatches, d), d, "timeout")
       ELSE FailurePath(Take(dispatches, d), d, "timeout")

\* ctx.reply of the catch block settles; its failure is logged, and executeCommand
\* returns false
ReplySettled(d, outcome) ==
    /\ BagIn(d, dispatches)
    /\ d.phase = "reply"
    /\ UNCHANGED <<sinceShutdown, enabled, fs, view, initialized, plugins, nextObj, now, ncalls, broadcasts,
                   inits, shuts, late, initCount, cleanupCount>>
    /\ dispatches' = Take(dispatches, d)
    /\ heap' = Collect([heap EXCEPT ![d.obj].doneFail = @ + 1],
                       plugins, dispatches')
    /\ last' = DispatchDone(d, "false", 1)

\* a handler (or onEvent) that lost its race completes: nobody awaits it any more
LateSettled(what) ==
    /\ late[what] > 0
    /\ late' = [late EXCEPT ![what] = @ - 1]
    /\ UNCHANGED <<sinceShutdown, enabled, fs, view, initialized, plugins, heap, nextObj, now, ncalls,
                   dispatches, broadcasts, inits, shuts, initCount, cleanupCount, last>>

(***************************************************************************)
(* broadcastEvent(event).                                                  *)
(***************************************************************************)
\* the for loop over this.plugins: the plugin instances of the active entries, in
\* Map order
BroadcastTargets(regs, h) ==
    LET act == SelectSeq(regs, LAMBDA e : h[e.obj].active)
    IN [i \in DOMAIN act |-> h[act[i].obj].inst]

\* what plugin.onEvent(event) can do before it returns its promise.  The demo's
\* onEvent is an async function that only logs; of the installed plugins, candidate 1
\* has an async onEvent that cannot fail, candidate 2 fails with null or undefined,
\* candidate 3 fails with an Error
EventBehaviours(c) ==
    CASE c = DemoInst -> {"resolve"}
      [] c = 1 -> {"pending"}
      [] c = 2 -> {"pending", "throwNullish"}
      [] c = 3 -> {"pending", "throwError"}

\* how the promise onEvent returned can settle
EventOutcomes(c) ==
    CASE c = DemoInst -> {}
      [] c = 1 -> {"resolve"}
      [] c = 2 -> {"resolve", "rejectNullish"}
      [] c = 3 -> {"resolve", "rejectError"}

\* the promise executePluginEvent returns, given what onEvent or the timer did:
\* fulfilled after onEvent fulfilled; fulfilled as well after the catch logged an
\* error ("caught"); rejected when logError itself throws on a null or undefined error
EventAttempt(outcome) ==
    CASE outcome = "pending" -> "pending"
      [] outcome = "resolve" -> "fulfilled"
      [] outcome \in {"throwError", "rejectError", "timeout"} -> "caught"
      [] outcome \in {"throwNullish", "rejectNullish"} -> "rejected"

\* variant: Promise.all, which rejects as soon as one promise has rejected
AwaitAllSettled_FailFast(attempts) ==
    IF \E k \in DOMAIN attempts : attempts[k].st = "rejected" THEN "rejected"
    ELSE IF \E k \in DOMAIN attempts : attempts[k].st = "pending" THEN "pending"
    ELSE "resolved"

\* variant: Promise.race, which settles with the first promise that does
AwaitAllSettled_Race(attempts) ==
    IF attempts = <<>> \/ \E k \in DOMAIN attempts : attempts[k].st # "pending"
    THEN "resolved" ELSE "pending"

\* await Promise.allSettled(promises)
AwaitAllSettled(attempts) ==
    IF \E k \in DOMAIN attempts : attempts[k].st = "pending" THEN "pending" ELSE "resolved"

\* the observation of a settled broadcastEvent call
BroadcastDone(b, result) ==
    [NoCall EXCEPT !.kind = "broadcastEvent", !.result = result, !.cause = "delivered",
                   !.state = b.state,
                   !.invoked = b.attempts,
                   !.activeAtCall = b.activeAtCall]

\* broadcastEvent up to its await
BroadcastEvent ==
    /\ ncalls < MaxCalls
    /\ ncalls' = ncalls + 1
    /\ UNCHANGED <<sinceShutdown, enabled, fs, view, initialized, plugins, heap, nextObj, now, dispatches,
                   inits, shuts, late, initCount, cleanupCount>>
    /\ IF ~initialized \/ ~enabled
       THEN /\ last' = [NoCall EXCEPT !.kind = "broadcastEvent", !.result = "resolved",
                                      !.cause = "guard", !.state = ManagerState]
            /\ UNCHANGED broadcasts
       ELSE LET targets == BroadcastTargets(plugins, heap)
            IN \E behs \in [DOMAIN targets -> {"pending", "resolve", "throwError",
                                               "throwNullish"}] :
                  /\ \A k \in DOMAIN targets : behs[k] \in EventBehaviours(targets[k])
                  /\ LET b == [attempts |-> [k \in DOMAIN targets |->
                                               [inst |-> targets[k],
                                                st |-> EventAttempt(behs[k])]],
                               start |-> now,
                               state |-> ManagerState,
                               \* observation: every earlier broadcast has resolved
                               alone |-> (broadcasts = EmptyBag),
                               activeAtCall |-> {heap[e.obj].inst : e \in
                                                   {x \in Range(plugins) : heap[x.obj].active}}]
                     IN IF AwaitAllSettled(b.attempts) = "pending"
                        THEN /\ broadcasts' = Put(broadcasts, b)
                             /\ UNCHANGED last
                        ELSE /\ last' = BroadcastDone(b, AwaitAllSettled(b.attempts))
                             /\ UNCHANGED broadcasts

\* attempt k of broadcast t ends with `outcome`; the broadcast returns when
\* Promise.allSettled does
AttemptEnds(t, k, outcome) ==
    LET b == [t EXCEPT !.attempts[k].st = EventAttempt(outcome)]
    IN IF AwaitAllSettled(b.attempts) = "pending"
       THEN /\ broadcasts' = Put(Take(broadcasts, t), b)
            /\ UNCHANGED last
       ELSE /\ broadcasts' = Take(broadcasts, t)
            /\ last' = BroadcastDone(b, AwaitAllSettled(b.attempts))

\* variant: the outcome of onEvent is counted like the outcome of a command
EventSettled_Counted(t, k, outcome) ==
    /\ BagIn(t, broadcasts)
    /\ k \in DOMAIN t.attempts
    /\ t.attempts[k].st = "pending"
    /\ outcome \in EventOutcomes(t.attempts[k].inst)
    /\ heap' = [o \in DOMAIN heap |->
                  IF heap[o].inst # t.attempts[k].inst THEN heap[o]
                  ELSE IF outcome = "resolve" THEN [heap[o] EXCEPT !.executions = @ + 1]
                  ELSE [heap[o] EXCEPT !.errors = @ + 1]]
    /\ UNCHANGED <<sinceShutdown, enabled, fs, view, initialized, plugins, nextObj, now, ncalls,
                   dispatches, inits, shuts, late, initCount, cleanupCount>>
    /\ AttemptEnds(t, k, outcome)

\* one plugin's onEvent promise settles while its race is open
EventSettled(t, k, outcome) ==
    /\ BagIn(t, broadcasts)
    /\ k \in DOMAIN t.attempts
    /\ t.attempts[k].st = "pending"
    /\ outcome \in EventOutcomes(t.attempts[k].inst)
    /\ UNCHANGED <<sinceShutdown, enabled, fs, view, initialized, plugins, heap, nextObj, now, ncalls,
                   dispatches, inits, shuts, late, initCount, cleanupCount>>
    /\ AttemptEnds(t, k, outcome)

\* variant: the timer fires whatever the time
EventTimerFired_Early(t, k) ==
    /\ BagIn(t, broadcasts)
    /\ k \in DOMAIN t.attempts
    /\ t.attempts[k].st = "pending"
    /\ late' = [late EXCEPT !.events = @ + 1]
    /\ UNCHANGED <<sinceShutdown, enabled, fs, view, initialized, plugins, heap, nextObj, now, ncalls,
                   dispatches, inits, shuts, initCount, cleanupCount>>
    /\ AttemptEnds(t, k, "timeout")

\* the setTimeout callback of one executePluginEvent fires while its race is open
EventTimerFired(t, k) ==
    /\ BagIn(t, broadcasts)
    /\ k \in DOMAIN t.attempts
    /\ t.attempts[k].st = "pending"
    /\ now >= t.start + Timeout
    /\ late' = [late EXCEPT !.events = @ + 1]
    /\ UNCHANGED <<sinceShutdown, enabled, fs, view, initialized, plugins, heap, nextObj, now, ncalls,
                   dispatches, inits, shuts, initCount, cleanupCount>>
    /\ AttemptEnds(t, k, "timeout")

(***************************************************************************)
(* Introspection.                                                          *)
(***************************************************************************)
\* getAvailableCommands(): {plugin, command} of the active entries
GetAvailableCommands(regs, h) ==
    UNION {{[plugin |-> e.key, command |-> c] : c \in h[e.obj].commands} :
              e \in {x \in Range(regs) : h[x.obj].active}}

\* getPluginStats(): one entry per registry entry; active and lastUsed are copied,
\* `stats` is the LoadedPlugin's stats object itself.  atCall is an observation: the
\* values that object held when the call returned
GetPluginStats ==
    /\ ncalls < MaxCalls
    /\ ncalls' = ncalls + 1
    /\ view' = [i \in DOMAIN plugins |->
                  [name |-> plugins[i].key, obj |-> plugins[i].obj,
                   active |-> heap[plugins[i].obj].active,
                   lastUsed |-> heap[plugins[i].obj].lastUsed,
                   atCall |-> <<heap[plugins[i].obj].executions,
                                heap[plugins[i].obj].errors,
                                heap[plugins[i].obj].totalExecutionTime>>]]
    /\ heap' = [o \in (DOMAIN heap \cap (Referenced(plugins, dispatches) \cup
                                           {plugins[i].obj : i \in DOMAIN plugins})) |->
                  heap[o]]
    /\ last' = [NoCall EXCEPT !.kind = "getPluginStats", !.result = "returned"]
    /\ UNCHANGED <<sinceShutdown, enabled, fs, initialized, plugins, nextObj, now, dispatches,
                   broadcasts, inits, shuts, late, initCount, cleanupCount>>

\* what the holder of a returned entry reads in entry.stats
EntryStats(e) ==
    <<heap[e.obj].executions, heap[e.obj].errors, heap[e.obj].totalExecutionTime>>

(***************************************************************************)
(* The specification.                                                      *)
(***************************************************************************)
Next ==
    \/ Initialize
    \/ \E t \in BagToSet(inits) : \E o \in LoadOutcomes : LoadSettled(t, o)
    \/ Shutdown
    \/ \E t \in BagToSet(shuts) : \E c \in Cand :
          \E o \in {"resolve", "rejectError", "rejectNullish"} : CleanupSettled(t, c, o)
    \/ \E n \in PluginNames : \E b \in BOOLEAN : SetPluginActive(n, b)
    \/ \E cmd \in CommandNames : ExecuteCommand(cmd)
    \/ \E d \in BagToSet(dispatches) :
          \E o \in {"resolve", "rejectError", "rejectNullish"} : HandlerSettled(d, o)
    \/ \E d \in BagToSet(dispatches) : CommandTimerFired(d)
    \/ \E d \in BagToSet(dispatches) : \E o \in {"ok", "fail"} : ReplySettled(d, o)
    \/ BroadcastEvent
    \/ \E t \in BagToSet(broadcasts) : \E k \in 1..Len(t.attempts) :
          \E o \in {"resolve", "rejectError", "rejectNullish"} : EventSettled(t, k, o)
    \/ \E t \in BagToSet(broadcasts) : \E k \in 1..Len(t.attempts) :
          EventTimerFired(t, k)
    \/ \E w \in {"commands", "events"} : LateSettled(w)
    \/ Tick

Spec == Init /\ [][Next]_vars

\* the manager with a caller that keeps the array getPluginStats() returned, while
\* plugins are loaded, toggled, dispatched to and shut down
NextStats ==
    \/ GetPluginStats
    \/ Initialize
    \/ \E t \in BagToSet(inits) : \E o \in LoadOutcomes : LoadSettled(t, o)
    \/ Shutdown
    \/ \E t \in BagToSet(shuts) : \E c \in Cand :
          \E o \in {"resolve", "rejectError", "rejectNullish"} : CleanupSettled(t, c, o)
    \/ \E n \in PluginNames : \E b \in BOOLEAN : SetPluginActive(n, b)
    \/ \E cmd \in CommandNames : ExecuteCommand(cmd)
    \/ \E d \in BagToSet(dispatches) :
          \E o \in {"resolve", "rejectError", "rejectNullish"} : HandlerSettled(d, o)
    \/ \E d \in BagToSet(dispatches) : CommandTimerFired(d)
    \/ \E d \in BagToSet(dispatches) : \E o \in {"ok", "fail"} : ReplySettled(d, o)
    \/ LateSettled("commands")
    \/ Tick

SpecStats == Init /\ [][NextStats]_vars

\* broadcasts alone, with a clock that runs as long as a timer needs it.  The event
\* loop runs a timer callback that is due and time passes; nothing makes a plugin's
\* onEvent settle
TimerFires ==
    \E t \in BagToSet(broadcasts) : \E k \in 1..Len(t.attempts) : EventTimerFired(t, k)

NextLive ==
    \/ Initialize
    \/ \E t \in BagToSet(inits) : \E o \in LoadOutcomes : LoadSettled(t, o)
    \/ \E n \in PluginNames : \E b \in BOOLEAN : SetPluginActive(n, b)
    \/ BroadcastEvent
    \/ \E t \in BagToSet(broadcasts) : \E k \in 1..Len(t.attempts) :
          \E o \in {"resolve", "rejectError", "rejectNullish"} : EventSettled(t, k, o)
    \/ TimerFires
    \/ LateSettled("events")
    \/ TickUntilDue

SpecLive == Init /\ [][NextLive]_vars /\ WF_vars(TimerFires) /\ WF_vars(TickUntilDue)

(***************************************************************************)
(* Observations the properties below are stated over.                      *)
(***************************************************************************)
\* the executeCommand calls that reached a handler and have not returned yet
Running == BagToSet(dispatches)

\* the most recently settled call was an executeCommand that reached a handler
LastDispatched == last.kind = "executeCommand" /\ last.inst # -1

\* the most recently settled call was a broadcastEvent that passed the guard
LastDelivered == last.kind = "broadcastEvent" /\ last.cause = "delivered"

\* the ways a dispatch fails
FailureCauses == {"throwError", "throwNullish", "rejectError", "rejectNullish", "timeout"}

\* every instance of `among` has exactly one attempt, and nobody else has one
ExactlyOnce(attempts, among) ==
    /\ {a.inst : a \in Range(attempts)} = among
    /\ \A i, j \in DOMAIN attempts : attempts[i].inst = attempts[j].inst => i = j

\* the stats of a freshly registered entry
ZeroStats == <<0, 0, 0, 0, TRUE>>

(***************************************************************************)
(* Properties.                                                             *)
(***************************************************************************)
\* C1: a broadcastEvent made while the manager is Ready invokes onEvent exactly once
\* on every plugin active at call time and on no other, and the call resolves, also
\* when some onEvent throws, rejects or times out.
C1_BroadcastIsolation ==
    /\ \A b \in BagToSet(broadcasts) :
          b.state = "Ready" => ExactlyOnce(b.attempts, b.activeAtCall)
    /\ (LastDelivered /\ last.state = "Ready") =>
          /\ ExactlyOnce(last.invoked, last.activeAtCall)
          /\ last.result = "resolved"

\* a broadcast to two plugins has resolved although one onEvent failed (with an error
\* that was logged, or with one that made the logging itself throw)
C1_Witness ==
    /\ LastDelivered /\ last.state = "Ready" /\ last.result = "resolved"
    /\ Len(last.invoked) = 2
    /\ \E i, j \in DOMAIN last.invoked :
          /\ last.invoked[i].st = "fulfilled"
          /\ last.invoked[j].st \in {"caught", "rejected"}

\* C2 (as stated): a dispatch never invokes a plugin while another active plugin
\* that owns the command was registered before it.
C2_FirstLoadedWins ==
    /\ \A d \in Running : ~d.earlier
    /\ LastDispatched => ~last.earlier

\* C3 (as stated): once setPluginActive(name, false) has returned true, and until
\* another call settles, a call started now reaches nothing of the plugin registered
\* under that name: getAvailableCommands() lists none of its commands, no command
\* resolves to its entry, and broadcastEvent does not target it.
C3_InactiveExclusion ==
    (last.kind = "setPluginActive" /\ last.result = "true" /\ ~last.after[5]) =>
        /\ \A x \in GetAvailableCommands(plugins, heap) : x.plugin # last.name
        /\ MapGet(plugins, last.name) # 0 =>
              /\ \A cmd \in CommandNames :
                    FindCommand(plugins, heap, cmd) # MapGet(plugins, last.name)
              /\ heap[MapGet(plugins, last.name)].inst \notin
                    Range(BroadcastTargets(plugins, heap))

C5_StatsCount ==
    \A o \in DOMAIN heap :
       /\ heap[o].executions = heap[o].doneOk
       /\ heap[o].errors = heap[o].doneFail +
             BagCardinality([d \in {x \in Running : x.obj = o /\ x.phase = "reply"} |->
                                CopiesIn(d, dispatches)])
       /\ heap[o].totalExecutionTime = heap[o].sumElapsed

\* one entry has one successful and one failed dispatch behind it, none in flight
C5_Witness ==
    \E o \in DOMAIN heap :
       /\ heap[o].executions = 1 /\ heap[o].errors = 1 /\ heap[o].doneFail = 1
       /\ heap[o].totalExecutionTime > 0
       /\ \A d \in Running : d.obj # o

\* C6 (as stated): from the moment shutdown() resolves until the next initialize()
\* call the registry is empty and the manager is not Ready, so that executeCommand
\* returns false.
C6_ShutdownCompleteness ==
    sinceShutdown => (plugins = <<>> /\ ~initialized)

\* C7 (as stated): initialize() with a plugin directory that is missing or holds no
\* subdirectory registers exactly the demo plugin.
C7_DemoWhenNoSubfolders ==
    (/\ last.kind = "initialize" /\ last.result = "resolved" /\ last.cause # "guard"
     /\ (~fs.exists \/ fs.dirs = <<>>)) =>
        /\ Len(plugins) = 1
        /\ heap[plugins[1].obj].inst = DemoInst

\* C7 (amended): initialize() with a plugin directory that cannot be listed registers
\* exactly the demo plugin, active and with zeroed stats (until a dispatch to it
\* ends its race); a dispatch of "demo" to
\* that fresh entry whose handler fulfils while the race is open returns true and
\* leaves executions at 1.
C7_DemoWhenDirectoryMissing ==
    /\ (last.kind = "initialize" /\ last.result = "resolved" /\ last.cause # "guard") =>
          IF fs.exists
          THEN last.cause = "discovered" /\ \A e \in Range(plugins) : heap[e.obj].inst # DemoInst
          ELSE /\ last.cause = "demo"
               /\ Len(plugins) = 1
               /\ plugins[1].key = "Demo Plugin"
               /\ heap[plugins[1].obj].inst = DemoInst
               /\ heap[plugins[1].obj].commands = {"demo"}
               /\ heap[plugins[1].obj].active
               /\ Running = {} => Stats(heap[plugins[1].obj]) = ZeroStats
    /\ (/\ LastDispatched /\ last.inst = DemoInst /\ last.cause = "resolve"
        /\ last.before = ZeroStats) =>
          /\ last.result = "true"
          /\ last.after[1] = 1

\* the demo plugin was registered for a missing directory, and "demo" returned true
C7_Witness ==
    /\ ~fs.exists
    /\ LastDispatched /\ last.inst = DemoInst /\ last.result = "true"
    /\ last.before = ZeroStats /\ last.after[1] = 1
    /\ Len(plugins) = 1

\* C8 (as stated): a call made in a state other than Ready, or with the subsystem
\* disabled, reaches no command handler and no onEvent.
C8_GuardOutsideReady ==
    /\ \A d \in Running : d.state = "Ready" /\ enabled
    /\ LastDispatched => last.state = "Ready" /\ enabled
    /\ \A b \in BagToSet(broadcasts) : b.attempts # <<>> => b.state = "Ready" /\ enabled
    /\ (LastDelivered /\ last.invoked # <<>>) => last.state = "Ready" /\ enabled

\* C9 (as stated): a dispatch whose handler throws, rejects or times out counts one
\* error, adds the elapsed time, leaves executions, makes one ctx.reply attempt and
\* resolves to false.
C9_FailurePath ==
    (LastDispatched /\ last.cause \in FailureCauses) =>
        /\ last.result = "false"
        /\ last.replies = 1
        /\ last.after[2] = last.before[2] + 1
        /\ last.after[3] = last.before[3] + last.elapsed
        /\ last.after[1] = last.before[1]

\* C10: a dispatch whose handler fulfils while the race is open counts one execution,
\* leaves errors, stamps lastUsed with the current time and returns true; a failed
\* dispatch and a toggle leave lastUsed, so lastUsed is set only where executions >= 1.
C10_SuccessPath ==
    /\ (LastDispatched /\ last.cause = "resolve") =>
          /\ last.result = "true"
          /\ last.after[1] = last.before[1] + 1
          /\ last.after[2] = last.before[2]
          /\ last.usedNow
    /\ (LastDispatched /\ last.cause \in FailureCauses) => last.after[4] = last.before[4]
    /\ \A d \in Running : d.phase = "reply" => d.after[4] = d.before[4]
    /\ (last.kind = "setPluginActive" /\ last.result = "true") =>
          last.after[4] = last.before[4]
    /\ \A o \in DOMAIN heap : heap[o].lastUsed # 0 => heap[o].executions >= 1

\* a dispatch returned true and stamped lastUsed on an entry that had failed before
C10_Witness ==
    /\ LastDispatched /\ last.cause = "resolve" /\ last.result = "true"
    /\ last.before[2] = 1 /\ last.before[4] = 0
    /\ last.after[4] # 0

\* no active entry of the registry has `cmd` in its command table
NoActiveOwner(cmd) ==
    \A e \in Range(plugins) : ~(heap[e.obj].active /\ cmd \in heap[e.obj].commands)

\* C11: an executeCommand for a name that no active plugin owns returns false at once
\* and changes nothing: no handler is started, no entry's stats, lastUsed or active
\* flag changes, the registry stays as it is, and nothing is sent through ctx.reply.
C11_NoMatchNoEffect ==
    [][\A cmd \in CommandNames :
          (ExecuteCommand(cmd) /\ NoActiveOwner(cmd)) =>
              /\ heap' = heap /\ plugins' = plugins /\ initialized' = initialized
              /\ dispatches' = dispatches /\ late' = late
              /\ last'.kind = "executeCommand" /\ last'.name = cmd
              /\ last'.result = "false" /\ last'.replies = 0 /\ last'.inst = -1]_vars

\* in Ready, "demo" was asked for while its only owner is inactive: false, no match
C11_Witness ==
    /\ last.kind = "executeCommand" /\ last.cause = "nomatch" /\ last.result = "false"
    /\ last.state = "Ready" /\ last.name = "demo"
    /\ Len(plugins) = 1
    /\ "demo" \in heap[plugins[1].obj].commands /\ ~heap[plugins[1].obj].active

\* C12 (as stated): as long as a plugin stays registered (no shutdown() has unloaded
\* it), no step lowers the executions, errors or totalExecutionTime that the registry
\* holds for it.
C12_StatsNeverDecrease ==
    [][\A i \in DOMAIN plugins : \A j \in DOMAIN plugins' :
          (/\ plugins[i].key = plugins'[j].key
           /\ heap[plugins[i].obj].inst = heap'[plugins'[j].obj].inst) =>
              /\ heap'[plugins'[j].obj].executions >= heap[plugins[i].obj].executions
              /\ heap'[plugins'[j].obj].errors >= heap[plugins[i].obj].errors
              /\ heap'[plugins'[j].obj].totalExecutionTime >=
                    heap[plugins[i].obj].totalExecutionTime]_vars

\* C13: a loadPlugin that fails (import, missing getName, initialize() or
\* getCommands() throwing, with an Error or with null/undefined) registers nothing;
\* one that succeeds registers its candidate; either way discovery goes on with the
\* next candidate in directory order, and after the last one initialize() resolves
\* and the manager is Ready.
C13_LoadFailureIsolated ==
    [][\A t \in BagToSet(inits) : \A o \in LoadOutcomes :
          LoadSettled(t, o) =>
              /\ o # "ok" => (plugins' = plugins /\ heap' = heap)
              /\ o = "ok" =>
                    /\ MapGet(plugins', CandName(fs.dirs[t.idx])) # 0
                    /\ heap'[MapGet(plugins', CandName(fs.dirs[t.idx]))].inst = fs.dirs[t.idx]
                    /\ \A e \in Range(plugins) :
                          e.key # CandName(fs.dirs[t.idx]) => e \in Range(plugins')
              /\ IF t.idx < Len(fs.dirs)
                 THEN /\ BagIn([idx |-> t.idx + 1], inits')
                      /\ last' = last
                 ELSE /\ initialized'
                      /\ last'.kind = "initialize" /\ last'.result = "resolved"]_vars

\* one initialize() has resolved and the manager is Ready: candidate 1 failed after
\* its initialize() hook was called, candidates 2 and 3 are registered
C13_Witness ==
    /\ last.kind = "initialize" /\ last.result = "resolved" /\ last.cause = "discovered"
    /\ initialized /\ ncalls = 1 /\ inits = EmptyBag
    /\ initCount[1] = 1
    /\ {heap[e.obj].inst : e \in Range(plugins)} = {2, 3}

\* C14 (as stated): over any interleaving of initialize() calls with no shutdown()
\* call in between, the initialize() hook of a plugin is called at most once.
C14_InitHookOnce ==
    \A c \in DOMAIN initCount : initCount[c] <= 1

\* C15: shutdown() calls cleanup() on every registry entry whose plugin defines it,
\* active or inactive, and on all of them in the step of the call, before any is
\* awaited; a cleanup that ends, resolved or rejected, stops no other cleanup: the
\* shutdown keeps waiting for the rest and, when the last one has ended, clears the
\* registry and resolves; shutdown() never rejects.
C15_ShutdownCleansAll ==
    [][/\ Shutdown =>
            \A c \in DOMAIN cleanupCount :
                cleanupCount'[c] =
                    IF CandHasCleanup(c) /\ \E e \in Range(plugins) : heap[e.obj].inst = c
                    THEN cleanupCount[c] + 1 ELSE cleanupCount[c]
       /\ \A t \in BagToSet(shuts) : \A c \in t.pending :
            \A o \in {"resolve", "rejectError", "rejectNullish"} :
                CleanupSettled(t, c, o) =>
                    /\ cleanupCount' = cleanupCount
                    /\ IF t.pending = {c}
                       THEN /\ plugins' = <<>> /\ ~initialized'
                            /\ last'.kind = "shutdown" /\ last'.result = "resolved"
                       ELSE /\ \E u \in BagToSet(shuts') : u.pending = t.pending \ {c}
                            /\ plugins' = plugins
       /\ last'.kind = "shutdown" => last'.result = "resolved"]_vars

\* a shutdown() of a registry holding an inactive "A" (candidate 3) and "B"
\* (candidate 2) is awaiting: both cleanups were called, the cleanup of "B" has
\* rejected with undefined and the cleanup of the inactive "A" is still running
C15_Witness ==
    /\ Len(plugins) = 2
    /\ \E e \in Range(plugins) :
          e.key = "A" /\ heap[e.obj].inst = 3 /\ ~heap[e.obj].active
    /\ cleanupCount[2] = 1 /\ cleanupCount[3] = 1
    /\ \E t \in BagToSet(shuts) : t.rejected /\ t.pending = {3}

\* C16: setPluginActive(name, b) on a registered name returns true and changes
\* nothing but the active flag of that name's entry, which becomes b: the entry's
\* stats, lastUsed and command table, every other entry and the registry are as
\* before, and no initialize, cleanup, onEvent or command handler is invoked; on a
\* name that is not registered it returns false and changes nothing.
C16_SetActiveFrame ==
    [][\A name \in PluginNames : \A b \in BOOLEAN :
          SetPluginActive(name, b) =>
              /\ plugins' = plugins /\ initialized' = initialized
              /\ initCount' = initCount /\ cleanupCount' = cleanupCount
              /\ dispatches' = dispatches /\ broadcasts' = broadcasts
              /\ inits' = inits /\ shuts' = shuts /\ late' = late
              /\ last'.kind = "setPluginActive"
              /\ IF \E e \in Range(plugins) : e.key = name
                 THEN /\ last'.result = "true"
                      /\ DOMAIN heap' = DOMAIN heap
                      /\ \A o \in DOMAIN heap :
                            heap'[o] = IF \E e \in Range(plugins) : e.key = name /\ e.obj = o
                                       THEN [heap[o] EXCEPT !.active = b]
                                       ELSE heap[o]
                 ELSE /\ last'.result = "false"
                      /\ heap' = heap]_vars

\* setPluginActive("A", FALSE) has returned true on an entry that had served one
\* command, with another plugin registered: the entry's counters and lastUsed are
\* those from before the call and its flag is now false
C16_Witness ==
    /\ last.kind = "setPluginActive" /\ last.result = "true" /\ last.name = "A"
    /\ last.before[1] = 1 /\ last.before[5] = TRUE
    /\ last.after = [last.before EXCEPT ![5] = FALSE]
    /\ Len(plugins) = 2
    /\ \E e \in Range(plugins) : e.key # "A" /\ heap[e.obj].active

\* C17: when the timer wins the race the manager counts one error and no execution
\* on the entry and goes on to report false, while the handler it stops waiting for
\* runs on; the later completion of that handler changes no entry's stats, no call in
\* flight and no reported outcome, and a call that timed out has returned false with
\* errors one higher and executions as before.
C17_TimeoutAdvisory ==
    [][/\ \A d \in BagToSet(dispatches) :
            CommandTimerFired(d) =>
                /\ late'.commands = late.commands + 1
                /\ heap'[d.obj].errors = heap[d.obj].errors + 1
                /\ heap'[d.obj].executions = heap[d.obj].executions
                /\ \E d1 \in BagToSet(dispatches') :
                      d1.phase = "reply" /\ d1.cause = "timeout" /\ d1.obj = d.obj
       /\ LateSettled("commands") =>
            /\ heap' = heap /\ plugins' = plugins /\ last' = last
            /\ dispatches' = dispatches /\ broadcasts' = broadcasts
       /\ (last'.kind = "executeCommand" /\ last'.cause = "timeout") =>
            /\ last'.result = "false"
            /\ last'.after[1] = last'.before[1]
            /\ last'.after[2] = last'.before[2] + 1]_vars

\* executeCommand has returned false after a timeout, with one error and no
\* execution counted on the entry, and the handler it stopped waiting for has not
\* completed yet
C17_Witness ==
    /\ last.kind = "executeCommand" /\ last.cause = "timeout" /\ last.result = "false"
    /\ last.after[1] = 0 /\ last.after[2] = 1
    /\ dispatches = EmptyBag
    /\ late.commands = 1
    /\ \E e \in Range(plugins) :
          heap[e.obj].inst = last.inst /\ heap[e.obj].errors = 1 /\ heap[e.obj].executions = 0

\* C18: the step in which broadcastEvent is called on a Ready manager invokes onEvent
\* on every active plugin, before anything is awaited; the end of one attempt (onEvent
\* fulfilled, failed, or its timer fired) leaves the call unresolved and the other
\* attempts as they are while any of them is pending, and the call resolves in the
\* step that settles the last attempt.
C18_FanOutFanIn ==
    [][/\ (BroadcastEvent /\ initialized /\ enabled) =>
            LET act == {heap[e.obj].inst : e \in {x \in Range(plugins) : heap[x.obj].active}}
            IN \/ \E b \in BagToSet(broadcasts') :
                     /\ CopiesIn(b, broadcasts') = CopiesIn(b, broadcasts) + 1
                     /\ {a.inst : a \in Range(b.attempts)} = act
                     /\ last' = last
               \/ /\ broadcasts' = broadcasts
                  /\ last'.kind = "broadcastEvent" /\ last'.cause = "delivered"
                  /\ {a.inst : a \in Range(last'.invoked)} = act
                  /\ \A a \in Range(last'.invoked) : a.st # "pending"
       /\ \A t \in BagToSet(broadcasts) : \A k \in DOMAIN t.attempts :
            (\/ EventTimerFired(t, k)
             \/ \E o \in {"resolve", "rejectError", "rejectNullish"} : EventSettled(t, k, o)) =>
                IF \E j \in DOMAIN t.attempts \ {k} : t.attempts[j].st = "pending"
                THEN /\ last' = last
                     /\ \E b \in BagToSet(broadcasts') :
                           /\ DOMAIN b.attempts = DOMAIN t.attempts
                           /\ \A j \in DOMAIN t.attempts \ {k} : b.attempts[j] = t.attempts[j]
                           /\ b.attempts[k].inst = t.attempts[k].inst
                           /\ b.attempts[k].st # "pending"
                ELSE /\ CopiesIn(t, broadcasts') = CopiesIn(t, broadcasts) - 1
                     /\ last'.kind = "broadcastEvent" /\ last'.result = "resolved"
                     /\ DOMAIN last'.invoked = DOMAIN t.attempts
                     /\ \A a \in Range(last'.invoked) : a.st # "pending"]_vars

\* a broadcast to two active plugins is being awaited: both onEvent were invoked, one
\* attempt has ended and the other is pending, and the call has not resolved
C18_Witness ==
    /\ last.kind = "initialize"
    /\ \E b \in BagToSet(broadcasts) :
          /\ Len(b.attempts) = 2
          /\ b.activeAtCall = {b.attempts[1].inst, b.attempts[2].inst}
          /\ \E i, j \in DOMAIN b.attempts :
                b.attempts[i].st \in {"fulfilled", "caught", "rejected"}
                /\ b.attempts[j].st = "pending"

\* C19 (as stated): when broadcastEvent is called after every earlier broadcast has
\* resolved and invokes onEvent on some plugin, no onEvent invocation of an earlier
\* broadcast is still running.
C19_NeverOverlap ==
    [][(/\ BroadcastEvent
        /\ broadcasts = EmptyBag /\ initialized /\ enabled
        /\ \E e \in Range(plugins) : heap[e.obj].active) =>
            late.events = 0]_vars

\* C19 (amended): broadcasts issued one after the other overlap only through
\* timeouts.  An onEvent invocation leaves the awaited attempts while it still runs
\* only in a step where its timer fires, at least Timeout after it was invoked; an
\* attempt that ends because onEvent settled leaves nothing running; and a broadcast
\* called after the earlier ones resolved finds none of their attempts pending.
C19_OverlapOnlyAfterTimeout ==
    [][/\ late'.events > late.events =>
            /\ late'.events = late.events + 1
            /\ \E t \in BagToSet(broadcasts) : \E k \in DOMAIN t.attempts :
                  /\ EventTimerFired(t, k)
                  /\ t.attempts[k].st = "pending"
                  /\ now >= t.start + Timeout
       /\ \A t \in BagToSet(broadcasts) : \A k \in DOMAIN t.attempts :
            \A o \in {"resolve", "rejectError", "rejectNullish"} :
                EventSettled(t, k, o) => late' = late
       /\ BroadcastEvent =>
            \A b \in BagToSet(broadcasts') :
                (b.alone /\ CopiesIn(b, broadcasts') > CopiesIn(b, broadcasts)) =>
                    \A t \in BagToSet(broadcasts) : \A a \in Range(t.attempts) :
                        a.st # "pending"]_vars

\* the first broadcast has resolved after an onEvent timed out, that onEvent is still
\* running, and a second broadcast, called after the first resolved, has invoked
\* onEvent and awaits it
C19_Witness ==
    /\ LastDelivered /\ last.result = "resolved"
    /\ \E a \in Range(last.invoked) : a.st = "caught"
    /\ late.events >= 1
    /\ \E b \in BagToSet(broadcasts) :
          /\ b.alone /\ b.attempts # <<>>
          /\ \A a \in Range(b.attempts) : a.st = "pending"

\* C20: no step of a broadcast (the call, an onEvent settling either way, a timer
\* firing, a timed-out onEvent completing late) changes any entry's executions,
\* errors, totalExecutionTime, lastUsed or active flag, or the registry.
C20_BroadcastFrame ==
    [][(\/ BroadcastEvent
        \/ \E t \in BagToSet(broadcasts) : \E k \in DOMAIN t.attempts :
              \/ EventTimerFired(t, k)
              \/ \E o \in {"resolve", "rejectError", "rejectNullish"} : EventSettled(t, k, o)
        \/ LateSettled("events")) =>
            /\ plugins' = plugins
            /\ DOMAIN heap' = DOMAIN heap
            /\ \A o \in DOMAIN heap : Stats(heap'[o]) = Stats(heap[o])]_vars

\* a broadcast has resolved in which the onEvent of "A" (candidate 3) failed, after
\* "A" had served one command: its entry still counts one execution and no error
C20_Witness ==
    /\ LastDelivered /\ last.result = "resolved"
    /\ \E a \in Range(last.invoked) : a.inst = 3 /\ a.st = "caught"
    /\ \E e \in Range(plugins) :
          /\ heap[e.obj].inst = 3 /\ heap[e.obj].active
          /\ heap[e.obj].executions = 1 /\ heap[e.obj].errors = 0
          /\ heap[e.obj].lastUsed > 0

\* C21 (as stated): every entry of the array getPluginStats() returned keeps the
\* stats values its plugin had when the call returned, whatever is dispatched,
\* toggled or shut down afterwards.
C21_StatsSnapshot ==
    \A e \in Range(view) : EntryStats(e) = e.atCall

\* C22 (as stated): an executeCommand call invokes at most one handler; when that
\* handler throws, rejects or times out, no other handler is invoked, no other
\* entry's stats change, and the call returns false.
C22_SingleTarget ==
    [][/\ \A cmd \in CommandNames :
            ExecuteCommand(cmd) =>
                /\ BagCardinality(dispatches') <= BagCardinality(dispatches) + 1
                /\ \A o \in DOMAIN heap \cap DOMAIN heap' :
                      o # FindCommand(plugins, heap, cmd) => heap'[o] = heap[o]
       /\ \A d \in BagToSet(dispatches) :
            (\/ CommandTimerFired(d)
             \/ \E o \in {"rejectError", "rejectNullish"} : HandlerSettled(d, o)) =>
                /\ BagCardinality(dispatches') <= BagCardinality(dispatches)
                /\ \A x \in BagToSet(dispatches') :
                      x.phase = "race" => CopiesIn(x, dispatches') <= CopiesIn(x, dispatches)
                /\ \A o \in DOMAIN heap \cap DOMAIN heap' :
                      o # d.obj => heap'[o] = heap[o]
       /\ (last'.kind = "executeCommand" /\ last'.cause \in FailureCauses) =>
            last'.result = "false"]_vars

\* C23 (as stated): every failed dispatch that replied to the chat returned false
\* and sent the text a timeout sends, whichever failure occurred and whatever the
\* plugin's error said.
C23_SameFailureMessage ==
    (LastDispatched /\ last.cause \in FailureCauses /\ last.replies = 1) =>
        /\ last.result = "false"
        /\ last.msg = FailureMessage("timeout")

\* C24 (as stated): every dispatch that reached a handler, reported as success or
\* as failure, left the entry's totalExecutionTime strictly higher than it was.
C24_StrictlyIncreases ==
    (LastDispatched /\ last.cause \in FailureCauses \cup {"resolve"}) =>
        last.after[3] > last.before[3]

\* C24 (amended): every dispatch that reached a handler added the measured elapsed
\* time to the entry's totalExecutionTime, so the total never decreases; the elapsed
\* time is the difference of two clock readings, which is 0 when the handler settles
\* in the millisecond it was called, and at least Timeout when the timer won.
C24_AddsElapsed ==
    (LastDispatched /\ last.cause \in FailureCauses \cup {"resolve"}) =>
        /\ last.elapsed >= 0
        /\ last.after[3] = last.before[3] + last.elapsed
        /\ last.cause = "timeout" => last.elapsed >= Timeout
        /\ last.cause \in {"throwError", "throwNullish"} => last.elapsed = 0

\* a dispatch has returned true whose handler fulfilled in the millisecond it was
\* called: one execution is counted and totalExecutionTime is what it was
C24_Witness ==
    /\ LastDispatched /\ last.cause = "resolve" /\ last.result = "true"
    /\ last.elapsed = 0
    /\ last.after[1] = last.before[1] + 1
    /\ last.after[3] = last.before[3]

C26_PluginTimeoutOverride ==
    (LastDispatched /\ last.cause = "timeout") =>
        last.elapsed >= (IF CandTimeout(last.inst) # 0 THEN CandTimeout(last.inst)
                         ELSE Timeout)

\* C27 (as stated): when a shutdown() has resolved, no initialize() was called after
\* it and no initialize() or shutdown() call is still in flight, the manager is not
\* Ready, the registry is empty and no command is available.
C27_ShutdownWinsOverInitialize ==
    (sinceShutdown /\ inits = EmptyBag /\ shuts = EmptyBag) =>
        /\ ~initialized
        /\ plugins = <<>>
        /\ GetAvailableCommands(plugins, heap) = {}

\* C28 (as stated): a shutdown() called while an earlier shutdown() is still awaiting
\* cleanups does not invoke again a cleanup() the earlier call invoked and awaits, so
\* that no plugin is cleaned up twice.
C28_CleanupAtMostOnce ==
    [][Shutdown =>
          \A t \in BagToSet(shuts) : \A c \in t.pending :
              cleanupCount'[c] = cleanupCount[c]]_vars

\* C29 (as stated): a load step in which a plugin's initialize() hook has succeeded
\* (the load completes, or getCommands() throws afterwards) leaves that instance, and
\* every instance that was registered before the step, among the instances whose
\* cleanup() the next shutdown() invokes.
C29_InitializedIsCleanedUp ==
    [][\A t \in BagToSet(inits) : \A o \in {"ok", "getCommandsThrows"} :
          LoadSettled(t, o) =>
              /\ CandHasCleanup(fs.dirs[t.idx]) =>
                    fs.dirs[t.idx] \in CleanupTargets(plugins', heap')
              /\ CleanupTargets(plugins, heap) \subseteq CleanupTargets(plugins', heap')]_vars

\* C30 (as stated): after shutdown() has resolved and cleared the registry, every
\* step of a dispatch that was in flight (its handler settling, its timer firing, its
\* reply settling) leaves the registry empty, and the dispatch ends by returning true
\* or false, never by throwing.
C30_InFlightAfterShutdown ==
    [][\A d \in BagToSet(dispatches) :
          (/\ sinceShutdown /\ plugins = <<>>
           /\ \/ CommandTimerFired(d)
              \/ \E o \in {"resolve", "rejectError", "rejectNullish"} : HandlerSettled(d, o)
              \/ \E o \in {"ok", "fail"} : ReplySettled(d, o)) =>
              /\ plugins' = <<>>
              /\ ~initialized'
              /\ last' # last =>
                    (last'.kind = "executeCommand" /\ last'.result \in {"true", "false"})]_vars

====
